---- MODULE Spec2Model ----
(***************************************************************************)
(* The live fan-out hub of the event monitor and the finance handler       *)
(* (EventAnnouncer / MessageAnnouncer, the same code with maxlen 200 / 100 *)
(* and maxsize 20 / 10): a bounded history, a list of listener mailboxes,  *)
(* request threads calling announce, and streaming threads driving the     *)
(* listen generator.  The Flask apps run with threaded=True and the hub    *)
(* takes no lock, so the threads interleave between statements.  One step  *)
(* of a thread is one operation on a shared object that the interpreter    *)
(* runs without switching threads: deque.append, list(deque), len(list),   *)
(* list[i], del list[i], list.append, list.remove, Queue.put_nowait and    *)
(* Queue.get (the last two under the queue's own mutex).                   *)
(*                                                                         *)
(* Items are numbered by the order of their history append: item k is the  *)
(* k-th message appended to history (the text of a message plays no part   *)
(* in the hub).  A mailbox is named by the subscriber that created it; it  *)
(* outlives its removal from the list, since the generator and any         *)
(* announce call that has already evaluated self.listeners[i] still hold   *)
(* it.                                                                     *)
(*                                                                         *)
(* A generator is driven by the server thread that streams its items to    *)
(* the client.  That thread closes the generator when a write to the       *)
(* client fails, which can only happen while the generator is suspended at *)
(* a yield: a generator blocked in q.get() is not closed.                  *)
(***************************************************************************)
EXTENDS Integers, Sequences, FiniteSets, TLC

\* history capacity (deque maxlen: 200 in the event monitor, 100 in the
\* finance handler), scaled down
MaxLen == 2
\* mailbox capacity (Queue maxsize: 20 / 10), scaled down
MaxSize == 2
\* number of announce calls explored
MaxPub == 3

Pubs == {"p1", "p2"}
Subs == {"s1", "s2"}

VARIABLES
    pool,        \* the threads the server runs: see Runs
    history,     \* self.history: the deque of the most recent items
    listeners,   \* self.listeners: the list of registered mailboxes
    mbox,        \* the content of each subscriber's queue.Queue
    nPub,        \* number of history appends so far (numbers the items)
    ppc,         \* position of each request thread inside announce
    pmsg,        \* announce: msg
    pidx,        \* announce: i, the loop index (1-based here)
    pqref,       \* announce: the mailbox self.listeners[i] evaluated to
    shrunk,      \* some other thread removed a listener during this walk
    spc,         \* position of each streaming thread inside listen
    snap,        \* listen: list(self.history)
    snapN,       \* value of nPub when the snapshot was taken
    regN,        \* value of nPub when the mailbox was registered
    cur,         \* listen: msg returned by q.get(), not yet yielded
    yielded,     \* the items the generator has handed to its consumer
    connected    \* the HTTP client of the stream is still connected

\* One message on its way through the processing stages (content validator,
\* data extractor, database enricher, message router): each stage is an HTTP
\* handler that receives the envelope, works on it and returns it with the
\* label (event type) of the reply.  The hub above and the stages share no
\* state: each has its own specification, which holds the other's variables
\* fixed.
VARIABLES
    env,         \* the envelope (the JSON payload) as it stands
    prev,        \* the envelope the last stage call received
    called,      \* the stage called last
    outcome,     \* whether that call returned a reply or raised
    label,       \* the event type of the reply
    db,          \* how the customer lookup of that call went
    calls,       \* number of stage calls so far
    monitored    \* the stage the event monitor shows for the reply

\* The ingestion boundary (event producer): an HTTP handler that turns a
\* request into an envelope and posts it to the broker.  It shares no state
\* with the hub or the stages.
VARIABLES
    request,     \* the request handled last
    status,      \* the HTTP status it was answered with
    sink,        \* how the post to the broker went, if one was made
    posted,      \* the events posted to the broker so far, in order
    served       \* number of requests handled so far

pvars == <<ppc, pmsg, pidx, pqref, shrunk>>
svars == <<spc, snap, snapN, regN, cur, yielded, connected>>
evars == <<env, prev, called, outcome, label, db, calls, monitored>>
gvars == <<request, status, sink, posted, served>>
hvars == <<pool, history, listeners, mbox, nPub, pvars, svars>>
vars == <<hvars, evars, gvars>>

NoItem == 0
NoSub == "none"

----------------------------------------------------------------------------
\* Sequence helpers

Range(s) == {s[i] : i \in 1..Len(s)}

IndexOf(s, x) == CHOOSE i \in 1..Len(s) : s[i] = x /\ \A j \in 1..(i-1) : s[j] # x

RemoveAt(s, i) == [j \in 1..(Len(s)-1) |-> IF j < i THEN s[j] ELSE s[j+1]]

\* the items numbered a..b in append order
Items(a, b) == [j \in 1..(IF b >= a THEN b - a + 1 ELSE 0) |-> a + j - 1]

Min(a, b) == IF a < b THEN a ELSE b

----------------------------------------------------------------------------
\* The data structures the hub is built from

\* collections.deque(maxlen=MaxLen).append: a full deque drops its oldest
\* (leftmost) entry
DequeAppendKeepOldest(h, m) == IF Len(h) >= MaxLen THEN h ELSE Append(h, m)

DequeAppend(h, m) == IF Len(h) >= MaxLen THEN Append(Tail(h), m) ELSE Append(h, m)

\* queue.Queue(maxsize=MaxSize).put_nowait raises queue.Full on a full queue
QueueFull(q) == Len(mbox[q]) >= MaxSize

\* list.remove(q): removes the first occurrence of q
ListRemove(l, q) == RemoveAt(l, IndexOf(l, q))

\* The server's threads: two concurrent announce calls beside one stream, or
\* one announce call at a time beside two streams.
Pools == {"producers", "streams"}

Runs(t) ==
    \/ t \in {"p1", "s1"}
    \/ t = "p2" /\ pool = "producers"
    \/ t = "s2" /\ pool = "streams"

\* no message is in the stages
NoCall == "none"
NoEnvelope == [x \in {} |-> NoCall]
StageUnused ==
    /\ env = NoEnvelope
    /\ prev = NoEnvelope
    /\ called = NoCall
    /\ outcome = NoCall
    /\ label = NoCall
    /\ db = NoCall
    /\ calls = 0
    /\ monitored = NoCall

\* no request has reached the ingestion boundary
ProducerUnused ==
    /\ request = NoCall
    /\ status = 0
    /\ sink = NoCall
    /\ posted = <<>>
    /\ served = 0

\* no thread has entered the hub
HubUnused ==
    /\ history = <<>>
    /\ listeners = <<>>
    /\ mbox = [s \in Subs |-> <<>>]
    /\ nPub = 0
    /\ ppc = [p \in Pubs |-> "idle"]
    /\ pmsg = [p \in Pubs |-> NoItem]
    /\ pidx = [p \in Pubs |-> 0]
    /\ pqref = [p \in Pubs |-> NoSub]
    /\ shrunk = [p \in Pubs |-> FALSE]
    /\ spc = [s \in Subs |-> "idle"]
    /\ snap = [s \in Subs |-> <<>>]
    /\ snapN = [s \in Subs |-> 0]
    /\ regN = [s \in Subs |-> 0]
    /\ cur = [s \in Subs |-> NoItem]
    /\ yielded = [s \in Subs |-> <<>>]
    /\ connected = [s \in Subs |-> TRUE]

Init ==
    /\ pool \in Pools
    /\ HubUnused
    /\ StageUnused
    /\ ProducerUnused

----------------------------------------------------------------------------
\* announce(msg), one request thread p

InCall(p) == ppc[p] \in {"len", "index", "put", "del"}
InWalk(p) == ppc[p] \in {"index", "put", "del"}

\* threads of one kind are interchangeable: a new call or a new stream runs
\* on the first thread that is free
Rank(t) == IF t \in {"p1", "s1"} THEN 1 ELSE 2

\* the call returns normally and its thread is free again
Return(p) ==
    /\ ppc' = [ppc EXCEPT ![p] = "idle"]
    /\ pmsg' = [pmsg EXCEPT ![p] = NoItem]
    /\ pidx' = [pidx EXCEPT ![p] = 0]
    /\ pqref' = [pqref EXCEPT ![p] = NoSub]

\* the call ends with an uncaught IndexError
Raise(p) ==
    /\ ppc' = [ppc EXCEPT ![p] = "raised"]
    /\ pmsg' = [pmsg EXCEPT ![p] = NoItem]
    /\ pidx' = [pidx EXCEPT ![p] = 0]
    /\ pqref' = [pqref EXCEPT ![p] = NoSub]

\* the for loop moves on to the next lower index, or ends
NextIndex(p) ==
    IF pidx[p] - 1 = 0
    THEN Return(p)
    ELSE /\ pidx' = [pidx EXCEPT ![p] = pidx[p] - 1]
         /\ pqref' = [pqref EXCEPT ![p] = NoSub]
         /\ ppc' = [ppc EXCEPT ![p] = "index"]
         /\ UNCHANGED pmsg

\* the walks of the other threads see the list get shorter
MarkShrunk(me) == [p \in Pubs |-> IF p # me /\ InWalk(p) THEN TRUE ELSE shrunk[p]]

\* self.history.append(msg): the first statement of a new call
AnnounceAppend(p) ==
    /\ Runs(p)
    /\ ~InCall(p)
    /\ \A o \in Pubs : Rank(o) < Rank(p) => InCall(o)
    /\ nPub < MaxPub
    /\ nPub' = nPub + 1
    /\ history' = DequeAppend(history, nPub + 1)
    /\ pmsg' = [pmsg EXCEPT ![p] = nPub + 1]
    /\ ppc' = [ppc EXCEPT ![p] = "len"]
    /\ shrunk' = [shrunk EXCEPT ![p] = FALSE]
    /\ UNCHANGED <<evars, gvars, pool, listeners, mbox, pidx, pqref, svars>>

\* reversed(range(len(self.listeners))): the length is read once
AnnounceLen(p) ==
    /\ ppc[p] = "len"
    /\ IF Len(listeners) = 0
       THEN Return(p)
       ELSE /\ pidx' = [pidx EXCEPT ![p] = Len(listeners)]
            /\ ppc' = [ppc EXCEPT ![p] = "index"]
            /\ UNCHANGED <<pmsg, pqref>>
    /\ UNCHANGED <<evars, gvars, pool, history, listeners, mbox, nPub, shrunk, svars>>

\* self.listeners[i]: IndexError when the list no longer has position i
AnnounceIndex(p) ==
    /\ ppc[p] = "index"
    /\ IF pidx[p] <= Len(listeners)
       THEN /\ pqref' = [pqref EXCEPT ![p] = listeners[pidx[p]]]
            /\ ppc' = [ppc EXCEPT ![p] = "put"]
            /\ UNCHANGED <<pmsg, pidx>>
       ELSE Raise(p)
    /\ UNCHANGED <<evars, gvars, pool, history, listeners, mbox, nPub, shrunk, svars>>

\* a put that waits for room in place of put_nowait
AnnouncePutBlocking(p) ==
    /\ ppc[p] = "put"
    /\ ~QueueFull(pqref[p])
    /\ mbox' = [mbox EXCEPT ![pqref[p]] = Append(@, pmsg[p])]
    /\ NextIndex(p)
    /\ UNCHANGED <<evars, gvars, pool, history, listeners, nPub, shrunk, svars>>

\* .put_nowait(msg) / except queue.Full
AnnouncePut(p) ==
    /\ ppc[p] = "put"
    /\ IF ~QueueFull(pqref[p])
       THEN /\ mbox' = [mbox EXCEPT ![pqref[p]] = Append(@, pmsg[p])]
            /\ NextIndex(p)
       ELSE /\ ppc' = [ppc EXCEPT ![p] = "del"]
            /\ UNCHANGED <<mbox, pmsg, pidx, pqref>>
    /\ UNCHANGED <<evars, gvars, pool, history, listeners, nPub, shrunk, svars>>

\* del self.listeners[i]: IndexError when the list no longer has position i
AnnounceDel(p) ==
    /\ ppc[p] = "del"
    /\ IF pidx[p] <= Len(listeners)
       THEN /\ listeners' = RemoveAt(listeners, pidx[p])
            /\ shrunk' = MarkShrunk(p)
            /\ NextIndex(p)
       ELSE /\ Raise(p)
            /\ UNCHANGED <<listeners, shrunk>>
    /\ UNCHANGED <<evars, gvars, pool, history, mbox, nPub, svars>>

\* the statements of a call after its first
AnnounceStep(p) == AnnounceLen(p) \/ AnnounceIndex(p) \/ AnnouncePut(p) \/ AnnounceDel(p)

----------------------------------------------------------------------------
\* listen(), one streaming thread s, and the client it streams to

Streaming(s) == spc[s] \in {"replay", "live", "yield"}

\* the generator is gone: its locals are dropped
Drop(s) ==
    /\ snap' = [snap EXCEPT ![s] = <<>>]
    /\ snapN' = [snapN EXCEPT ![s] = 0]
    /\ regN' = [regN EXCEPT ![s] = 0]
    /\ cur' = [cur EXCEPT ![s] = NoItem]
    /\ yielded' = [yielded EXCEPT ![s] = <<>>]

\* list(self.history): the generator's first statement
ListenSnapshot(s) ==
    /\ Runs(s)
    /\ spc[s] = "idle"
    /\ \A o \in Subs : Rank(o) < Rank(s) => spc[o] # "idle"
    /\ snap' = [snap EXCEPT ![s] = history]
    /\ snapN' = [snapN EXCEPT ![s] = nPub]
    /\ spc' = [spc EXCEPT ![s] = "replay"]
    /\ UNCHANGED <<evars, gvars, pool, history, listeners, mbox, nPub, pvars, regN, cur, yielded, connected>>

\* a replay that starts from the newest entry
ListenReplayNewestFirst(s) ==
    /\ spc[s] = "replay"
    /\ Len(yielded[s]) < Len(snap[s])
    /\ connected[s]
    /\ yielded' = [yielded EXCEPT ![s] = Append(@, snap[s][Len(snap[s]) - Len(@)])]
    /\ UNCHANGED <<evars, gvars, pool, history, listeners, mbox, nPub, pvars, spc, snap, snapN, regN, cur, connected>>

\* for msg in ...: yield msg.  The consumer takes the item while the client
\* is connected; once the write to the client fails the generator is closed
\* at this yield, which lies outside the try block.
ListenReplay(s) ==
    /\ spc[s] = "replay"
    /\ Len(yielded[s]) < Len(snap[s])
    /\ IF connected[s]
       THEN /\ yielded' = [yielded EXCEPT ![s] = Append(@, snap[s][Len(@) + 1])]
            /\ UNCHANGED <<spc, snap, snapN, regN, cur>>
       ELSE /\ spc' = [spc EXCEPT ![s] = "closed"]
            /\ Drop(s)
    /\ UNCHANGED <<evars, gvars, pool, history, listeners, mbox, nPub, pvars, connected>>

\* q = queue.Queue(maxsize=MaxSize); self.listeners.append(q)
ListenRegister(s) ==
    /\ spc[s] = "replay"
    /\ Len(yielded[s]) = Len(snap[s])
    /\ listeners' = Append(listeners, s)
    /\ regN' = [regN EXCEPT ![s] = nPub]
    /\ spc' = [spc EXCEPT ![s] = "live"]
    /\ UNCHANGED <<evars, gvars, pool, history, mbox, nPub, pvars, snap, snapN, cur, yielded, connected>>

\* a variant of q.get() that takes the newest item of the mailbox
ListenGetNewest(s) ==
    /\ spc[s] = "live"
    /\ mbox[s] # <<>>
    /\ cur' = [cur EXCEPT ![s] = mbox[s][Len(mbox[s])]]
    /\ mbox' = [mbox EXCEPT ![s] = SubSeq(@, 1, Len(@) - 1)]
    /\ spc' = [spc EXCEPT ![s] = "yield"]
    /\ UNCHANGED <<evars, gvars, pool, history, listeners, nPub, pvars, snap, snapN, regN, yielded, connected>>

\* msg = q.get(): blocks while the mailbox is empty
ListenGet(s) ==
    /\ spc[s] = "live"
    /\ mbox[s] # <<>>
    /\ cur' = [cur EXCEPT ![s] = Head(mbox[s])]
    /\ mbox' = [mbox EXCEPT ![s] = Tail(@)]
    /\ spc' = [spc EXCEPT ![s] = "yield"]
    /\ UNCHANGED <<evars, gvars, pool, history, listeners, nPub, pvars, snap, snapN, regN, yielded, connected>>

\* yield msg, taken by the consumer
ListenYield(s) ==
    /\ spc[s] = "yield"
    /\ connected[s]
    /\ yielded' = [yielded EXCEPT ![s] = Append(@, cur[s])]
    /\ cur' = [cur EXCEPT ![s] = NoItem]
    /\ spc' = [spc EXCEPT ![s] = "live"]
    /\ UNCHANGED <<evars, gvars, pool, history, listeners, mbox, nPub, pvars, snap, snapN, regN, connected>>

\* yield msg, with the generator closed by its consumer:
\* finally: self.listeners.remove(q), ValueError when q is not in the list
ListenFinally(s) ==
    /\ spc[s] = "yield"
    /\ ~connected[s]
    /\ Drop(s)
    /\ IF s \in Range(listeners)
       THEN /\ listeners' = ListRemove(listeners, s)
            /\ shrunk' = MarkShrunk(NoSub)
            /\ spc' = [spc EXCEPT ![s] = "closed"]
       ELSE /\ spc' = [spc EXCEPT ![s] = "error"]
            /\ UNCHANGED <<listeners, shrunk>>
    /\ UNCHANGED <<evars, gvars, pool, history, mbox, nPub, ppc, pmsg, pidx, pqref, connected>>

\* the client of the stream goes away
Disconnect(s) ==
    /\ Streaming(s)
    /\ connected[s]
    /\ connected' = [connected EXCEPT ![s] = FALSE]
    /\ UNCHANGED <<evars, gvars, pool, history, listeners, mbox, nPub, pvars, spc, snap, snapN, regN, cur, yielded>>

\* the statements of a generator that is running
ListenStep(s) ==
    ListenReplay(s) \/ ListenRegister(s) \/ ListenGet(s) \/ ListenYield(s) \/ ListenFinally(s)

----------------------------------------------------------------------------
Next ==
    \/ \E p \in Pubs : AnnounceAppend(p)
    \/ \E p \in Pubs : AnnounceLen(p)
    \/ \E p \in Pubs : AnnounceIndex(p)
    \/ \E p \in Pubs : AnnouncePut(p)
    \/ \E p \in Pubs : AnnounceDel(p)
    \/ \E s \in Subs : ListenSnapshot(s)
    \/ \E s \in Subs : ListenReplay(s)
    \/ \E s \in Subs : ListenRegister(s)
    \/ \E s \in Subs : ListenGet(s)
    \/ \E s \in Subs : ListenYield(s)
    \/ \E s \in Subs : ListenFinally(s)
    \/ \E s \in Subs : Disconnect(s)

Spec == Init /\ [][Next]_vars

\* Every thread that is inside announce or listen is scheduled again; new
\* requests, new streams and client disconnects are up to the environment.
FairSpec ==
    /\ Spec
    /\ \A p \in Pubs : WF_vars(AnnounceStep(p))
    /\ \A s \in Subs : WF_vars(ListenStep(s))

\* Only the request threads are scheduled again: nothing is assumed of the
\* streams or their clients.
FairAnnounce == Spec /\ \A p \in Pubs : WF_vars(AnnounceStep(p))

\* One stream fed by two request threads, and only the stream's thread is
\* scheduled again: nothing is assumed of the request threads or of the
\* client.
OneStream ==
    pool = "producers" /\ HubUnused /\ StageUnused /\ ProducerUnused

FairListen ==
    /\ OneStream
    /\ [][Next]_vars
    /\ \A s \in Subs : WF_vars(ListenStep(s))

----------------------------------------------------------------------------
\* What the claims speak of

\* the last min(n, MaxLen) of the first n published items, in publish order
LastPublished(n) == Items(n - Min(n, MaxLen) + 1, n)

Registered(s) == s \in Range(listeners)

\* the items a stream has taken out of its mailbox and yielded
LivePart(s) == SubSeq(yielded[s], Len(snap[s]) + 1, Len(yielded[s]))

\* everything that has reached a stream through its mailbox, in arrival order
Received(s) ==
    IF spc[s] \in {"live", "yield"}
    THEN LivePart(s) \o (IF cur[s] = NoItem THEN <<>> ELSE <<cur[s]>>) \o mbox[s]
    ELSE <<>>

\* no announce call is between its history append and the end of its walk
Quiet == \A p \in Pubs : ~InCall(p)

\* the announce calls that began after s registered and have ended
EndedSince(s) ==
    {k \in (regN[s] + 1)..nPub : \A p \in Pubs : ~(InCall(p) /\ pmsg[p] = k)}

\* s is registered or was, and has never taken an item out of its mailbox
NeverDrained(s) == spc[s] = "live" /\ Len(yielded[s]) = Len(snap[s])

----------------------------------------------------------------------------
\* C1: a subscriber's replay followed by its live items has no gap: every
\* item published after its history snapshot and before its removal from
\* the subscriber list is yielded to it exactly once, in publish order.
\* Stated where nothing is pending: no announce call is running, the
\* mailbox is empty and the subscriber is still registered.
C1_GapFree ==
    \A s \in Subs :
        (spc[s] = "live" /\ Registered(s) /\ mbox[s] = <<>> /\ Quiet)
            => yielded[s] = snap[s] \o Items(snapN[s] + 1, nPub)

\* C2: a new subscription first yields exactly the last min(N, MaxLen)
\* items published before its snapshot, in publish order, before any live
\* item.
C2_ReplayLastPublished ==
    \A s \in Subs :
        Streaming(s) =>
            /\ snap[s] = LastPublished(snapN[s])
            /\ LET k == Min(Len(yielded[s]), Len(snap[s]))
               IN SubSeq(yielded[s], 1, k) = SubSeq(snap[s], 1, k)
            /\ spc[s] \in {"live", "yield"} => Len(yielded[s]) >= Len(snap[s])
            /\ spc[s] = "replay" => Len(yielded[s]) <= Len(snap[s])

\* more items were published than history holds, none concurrently with the
\* subscription, and the replay has been yielded in full
C2_Witness ==
    \E s \in Subs :
        /\ spc[s] = "replay"
        /\ snapN[s] > MaxLen
        /\ snapN[s] = nPub
        /\ Quiet
        /\ Len(snap[s]) = MaxLen
        /\ yielded[s] = snap[s]

\* C3: a registered subscriber that never drains its mailbox is out of the
\* subscriber list once MaxSize + 1 announce calls begun after its
\* registration have ended.
C3_NeverDrainedEvicted ==
    \A s \in Subs :
        (NeverDrained(s) /\ Cardinality(EndedSince(s)) >= MaxSize + 1)
            => ~Registered(s)

\* C4: no announce call ends in an error.
C4_AnnounceNeverRaises == \A p \in Pubs : ppc[p] # "raised"

\* C5: the deregistration of a subscription completes without error and
\* leaves the mailbox out of the subscriber list.
C5_ReleaseNeverFails ==
    \A s \in Subs :
        /\ spc[s] # "error"
        /\ spc[s] = "closed" => ~Registered(s)

\* C6: two subscribers registered for the whole of two publishes receive the
\* two items in the same relative order, and that order is the order of the
\* history appends.
C6_SameOrderAsHistory ==
    \A s1, s2 \in Subs :
        \A a, b \in 1..nPub :
            (/\ a < b
             /\ Registered(s1) /\ Registered(s2)
             /\ regN[s1] < a /\ regN[s2] < a
             /\ {a, b} \subseteq Range(Received(s1))
             /\ {a, b} \subseteq Range(Received(s2)))
                => /\ IndexOf(Received(s1), a) < IndexOf(Received(s1), b)
                   /\ IndexOf(Received(s2), a) < IndexOf(Received(s2), b)

\* C7: no two hub operations are inside their structural update at the same
\* time: an announce call from its history append to the end of its walk, a
\* subscription from its history snapshot to its registration.
InUpdate ==
    {p \in Pubs : InCall(p)} \cup {s \in Subs : spc[s] = "replay"}

C7_UpdatesSerialized == Cardinality(InUpdate) <= 1

\* C8: once the client of a registered subscriber is gone, the mailbox is
\* removed from the subscriber list without any further publish: the
\* subscriber's own thread, the only one left to remove it, can always take
\* its next step towards the deregistration.
C8_DisconnectedCanDeregister ==
    \A s \in Subs : (Registered(s) /\ ~connected[s]) => ENABLED ListenStep(s)

\* the same as a property of behaviours, for FairSpec
C8_DisconnectLeadsToRemoval ==
    \A s \in Subs : (Registered(s) /\ ~connected[s]) ~> ~Registered(s)

\* C9: announce never waits for a subscriber: a running call always has an
\* enabled next statement, whatever the mailboxes hold; its item went into
\* history with its first statement; it ends, with no step of any stream
\* assumed; and it ends in IndexError only if another thread shortened the
\* subscriber list during its walk.
C9_AnnounceNeverWaits ==
    \A p \in Pubs :
        /\ InCall(p) => ENABLED AnnounceStep(p)
        /\ InCall(p) => pmsg[p] \in 1..nPub
        /\ (InCall(p) /\ pmsg[p] > nPub - MaxLen) => pmsg[p] \in Range(history)
        /\ ppc[p] = "raised" => shrunk[p]

C10_HistoryLastPublished == history = LastPublished(nPub)

\* history was full and the oldest item has been evicted while a subscriber
\* is registered
C10_Witness == nPub > MaxLen /\ Len(history) = MaxLen /\ listeners # <<>>

\* C11: every mailbox in the subscriber list holds only items whose publish
\* began after the mailbox was registered, and none that its subscriber was
\* replayed from history.
C11_MailboxOnlyLaterItems ==
    \A s \in Subs :
        Registered(s) =>
            \A i \in 1..Len(mbox[s]) :
                /\ mbox[s][i] > regN[s]
                /\ mbox[s][i] \notin Range(snap[s])

----------------------------------------------------------------------------
(***************************************************************************)
(* The processing stages.                                                  *)
(*                                                                         *)
(* An envelope is a Python dict: a function from the keys it has to their  *)
(* values.  A string is kept as the sequence of the pieces it was put      *)
(* together from, so that f"validation:{issue}" is the piece "validation:" *)
(* followed by the pieces of issue.  The text of a message is kept as what *)
(* the stages measure on it: the keywords found in it, its length, its     *)
(* number of upper-case characters and of URLs, its longest run of one     *)
(* character, the first e-mail address in it and the number of routing     *)
(* keywords of each category in it.                                        *)
(***************************************************************************)

\* number of stage calls explored on one envelope
MaxCalls == 4
\* largest number of routing keywords of one category in a text
MaxMatches == 2

\* Python's None
None == "None"

\* dict.get(k, d), d[k] = v, k in d
Get(m, k, d) == IF k \in DOMAIN m THEN m[k] ELSE d
Put(m, k, v) == [x \in DOMAIN m \cup {k} |-> IF x = k THEN v ELSE m[x]]
Has(m, k) == k \in DOMAIN m
\* the dict without key k
Without(m, k) == [x \in DOMAIN m \ {k} |-> m[x]]

\* ', '.join(words), as pieces
RECURSIVE Join(_)
Join(words) ==
    IF words = <<>> THEN <<>>
    ELSE IF Len(words) = 1 THEN <<words[1]>>
    ELSE <<words[1], ", ">> \o Join(Tail(words))

Categories == <<"finance", "support", "website">>

\* a clean message that names a sender and no routing keyword
PlainText ==
    [spam |-> <<>>, profanity |-> <<>>, len |-> 30, upper |-> 1, urls |-> 0,
     run |-> 2, email |-> "john@acme.example",
     matches |-> [c \in Range(Categories) |-> 0]]
\* the text "" that stands for an absent content
EmptyText ==
    [spam |-> <<>>, profanity |-> <<>>, len |-> 0, upper |-> 0, urls |-> 0,
     run |-> 0, email |-> None,
     matches |-> [c \in Range(Categories) |-> 0]]

\* The texts explored.  The stages read disjoint measurements of the text
\* (validator: keywords, length, case, URLs, runs; extractor and enricher:
\* the address; router: the routing keywords), so each family of
\* measurements is varied with the others held at PlainText.
ValidatorTexts ==
    { [PlainText EXCEPT !.spam = s, !.profanity = p, !.len = lu[1],
                        !.upper = lu[2], !.urls = u, !.run = r] :
        s \in {<<>>, <<"lottery", "winner">>},
        p \in {<<>>, <<"scam">>},
        lu \in {<<5, 0>>, <<20, 20>>, <<21, 11>>, <<22, 11>>, <<30, 1>>,
               <<30, 16>>, <<10001, 1>>, <<10001, 5001>>},
        u \in {0, 4},
        r \in {2, 5} }
ExtractorTexts ==
    { [PlainText EXCEPT !.email = e] : e \in {None, "john@acme.example"} }
RouterTexts ==
    { [PlainText EXCEPT !.matches = k] :
        k \in [Range(Categories) -> 0..MaxMatches] }
Texts == ValidatorTexts \cup ExtractorTexts \cup RouterTexts \cup {EmptyText}

\* What a handler does with a request: it replies with an envelope and an
\* event type, or an exception leaves it (Flask answers 500, no reply event).
Reply(m, type) == [raised |-> FALSE, msg |-> m, type |-> type]
Raised(m) == [raised |-> TRUE, msg |-> m, type |-> NoCall]

\* len(payload.get("errors", []))
ErrorCount(m) == Len(Get(m, "errors", <<>>))
\* a variant that starts the list afresh with text
AppendErrorFresh(m, text) == Put(m, "errors", <<text>>)
\* message["errors"].append(text), where the key exists
AppendError(m, text) == Put(m, "errors", Append(m["errors"], text))
\* the same for each text of a list in turn
RECURSIVE AppendErrors(_, _)
AppendErrors(m, texts) ==
    IF texts = <<>> THEN m
    ELSE AppendErrors(AppendError(m, Head(texts)), Tail(texts))

----------------------------------------------------------------------------
\* Content validator

check_length(text) ==
    (IF text.len < 10
        THEN <<<<"Message too short (minimum 10 characters)">>>> ELSE <<>>)
    \o (IF text.len > 10000
        THEN <<<<"Message too long (maximum 10,000 characters)">>>> ELSE <<>>)

\* a variant that takes a ratio of one half for excessive
check_excessive_capsFromHalf(text) ==
    IF text.len > 20 /\ 2 * text.upper >= text.len
        THEN <<"Excessive capitalization detected (>50%)">>
        ELSE None

\* upper / len > 0.5, in whole numbers
check_excessive_caps(text) ==
    IF text.len > 20 /\ 2 * text.upper > text.len
        THEN <<"Excessive capitalization detected (>50%)">>
        ELSE None

check_urls(text) ==
    IF text.urls > 3
        THEN <<"Too many URLs detected (", ToString(text.urls), ")">>
        ELSE None

\* the pattern (.)\1{4,}: one character and at least four repeats of it
check_repeated_characters(text) ==
    IF text.run >= 1 + 4
        THEN <<"Excessive character repetition detected">>
        ELSE None

\* the six checks of validate in the order they run: whether the check's
\* result is truthy, and the issues validate records if it is
AllChecks(text) ==
    << [found |-> text.spam # <<>>,
        issues |-> <<<<"Spam keywords: ">> \o Join(text.spam)>>],
       [found |-> text.profanity # <<>>,
        issues |-> <<<<"Profanity: ">> \o Join(text.profanity)>>],
       [found |-> check_length(text) # <<>>,
        issues |-> check_length(text)],
       [found |-> check_excessive_caps(text) # None,
        issues |-> <<check_excessive_caps(text)>>],
       [found |-> check_urls(text) # None,
        issues |-> <<check_urls(text)>>],
       [found |-> check_repeated_characters(text) # None,
        issues |-> <<check_repeated_characters(text)>>] >>

\* a variant that stops at the first check that finds something
ChecksUntilFound(text) ==
    LET all == AllChecks(text)
        hits == {i \in 1..Len(all) : all[i].found}
    IN  IF hits = {} THEN all
        ELSE SubSeq(all, 1, CHOOSE i \in hits : \A j \in hits : i <= j)
\* the checks validate runs: all of them, whatever the earlier ones found
Checks(text) == AllChecks(text)

\* issues_found after the first n checks
RECURSIVE IssuesAfter(_, _)
IssuesAfter(checks, n) ==
    IF n = 0 THEN <<>>
    ELSE IssuesAfter(checks, n - 1)
         \o (IF checks[n].found THEN checks[n].issues ELSE <<>>)
\* issues_found after the checks, in the order they ran
IssuesFound(text) == IssuesAfter(Checks(text), Len(Checks(text)))

\* a variant that records the first issue only
ValidationErrorsFirstOnly(issues) ==
    IF issues = <<>> THEN <<>> ELSE <<<<"validation:">> \o issues[1]>>
\* f"validation:{issue}" for each issue
ValidationErrors(issues) ==
    [i \in 1..Len(issues) |-> <<"validation:">> \o issues[i]]

\* ContentValidator.validate: the envelope it returns, or a raise (KeyError
\* on message["errors"]) with the envelope as it stood then
validate(m) ==
    LET content == Get(m, "content", EmptyText)
        issues == IssuesFound(content)
        results == [is_valid |->
                        \A i \in 1..Len(Checks(content)) : ~Checks(content)[i].found,
                    checks_performed |-> Len(Checks(content)),
                    issues_found |-> issues]
        m2 == Put(Put(m, "validation", results), "processing_stage", "validated")
    IN  IF results.is_valid THEN [raised |-> FALSE, msg |-> m2]
        ELSE IF ~Has(m2, "errors") THEN [raised |-> TRUE, msg |-> m2]
        ELSE [raised |-> FALSE,
              msg |-> AppendErrors(m2, ValidationErrors(issues))]

\* a variant that takes an unchanged count for a failure
ValidatorHandleAtLeast(m) ==
    LET original_error_count == ErrorCount(m)
        r == validate(m)
    IN  IF r.raised THEN Raised(r.msg)
        ELSE IF ErrorCount(r.msg) >= original_error_count
            THEN Reply(r.msg, "com.learning.message.validation-failed")
            ELSE Reply(r.msg, "com.learning.message.validated")

\* content validator, handle_event
ValidatorHandle(m) ==
    LET original_error_count == ErrorCount(m)
        r == validate(m)
    IN  IF r.raised THEN Raised(r.msg)
        ELSE IF ErrorCount(r.msg) > original_error_count
            THEN Reply(r.msg, "com.learning.message.validation-failed")
            ELSE Reply(r.msg, "com.learning.message.validated")

----------------------------------------------------------------------------
\* Data extractor

\* a variant that stores no extracted_data when it finds no address
processSkipIncomplete(m) ==
    LET content == Get(m, "content", EmptyText)
        extracted_data == [email |-> content.email,
                           content_length |-> content.len]
    IN  IF content.email = None THEN Put(m, "processing_stage", "extracted")
        ELSE Put(Put(m, "extracted_data", extracted_data),
                 "processing_stage", "extracted")

\* a variant that adds the length to the one an earlier run stored
processAccumulating(m) ==
    LET content == Get(m, "content", EmptyText)
        before == Get(m, "extracted_data", [content_length |-> 0])
        extracted_data == [email |-> content.email,
                           content_length |-> before.content_length + content.len]
    IN  Put(Put(m, "extracted_data", extracted_data),
            "processing_stage", "extracted")

\* DataExtractor.process; of extracted_data the address and the length are
\* kept (the other entries are further measurements of the text, read by no
\* stage)
process(m) ==
    LET content == Get(m, "content", EmptyText)
        extracted_data == [email |-> content.email,
                           content_length |-> content.len]
    IN  Put(Put(m, "extracted_data", extracted_data),
            "processing_stage", "extracted")

\* a variant that lets a message without an address fail the request
ExtractorHandleStrict(m) ==
    LET processed == process(m)
        extracted == Get(processed, "extracted_data", [email |-> None])
    IN  IF extracted.email # None
            THEN Reply(processed, "com.learning.message.extracted")
        ELSE Raised(processed)

\* a variant that labels the reply incomplete without recording why
ExtractorHandleSilent(m) ==
    LET processed == process(m)
        extracted == Get(processed, "extracted_data", [email |-> None])
    IN  IF extracted.email # None
            THEN Reply(processed, "com.learning.message.extracted")
        ELSE Reply(processed, "com.learning.message.extraction-incomplete")

\* data extractor, handle_event
ExtractorHandle(m) ==
    LET processed == process(m)
        extracted == Get(processed, "extracted_data", [email |-> None])
    IN  IF extracted.email # None
            THEN Reply(processed, "com.learning.message.extracted")
        ELSE IF ~Has(processed, "errors") THEN Raised(processed)
        ELSE Reply(AppendError(processed, <<"No email address found">>),
                   "com.learning.message.extraction-incomplete")

----------------------------------------------------------------------------
\* Database enricher

\* How a query of the customers table can go: a row, no row, or an exception
\* (connection refused, query error).
Lookups == {"found", "missing", "fault"}
\* str(e) of that exception
FaultDetail == "connection refused"
\* a variant of the row's dict that does not flag the customer as known
CustomerRowUnflagged == [customer_id |-> "c1", is_known_customer |-> FALSE]
\* the dict built from the row
CustomerRow == [customer_id |-> "c1", is_known_customer |-> TRUE]
Unknown == [is_known_customer |-> FALSE]

\* a variant that swallows the exception and reports no row
lookup_customerSwallow(email, d) ==
    [raised |-> FALSE,
     value |-> IF d = "found" THEN CustomerRow ELSE Unknown,
     found |-> d = "found"]

\* DatabaseEnricher.lookup_customer: logs and re-raises what the query raises
lookup_customer(email, d) ==
    [raised |-> d = "fault",
     value |-> IF d = "found" THEN CustomerRow ELSE Unknown,
     found |-> d = "found"]

\* a variant that records nothing for a customer it does not find
enrichQuietMiss(m, d) ==
    LET email == Get(m, "extracted_data", [email |-> None]).email
        r == lookup_customer(email, d)
        done(x) == [raised |-> FALSE,
                    msg |-> Put(x, "processing_stage", "enriched")]
    IN  IF email = None THEN
            IF ~Has(m, "errors") THEN [raised |-> TRUE, msg |-> m]
            ELSE [raised |-> FALSE,
                  msg |-> Put(AppendError(m, <<"enrichment:", "no-email">>),
                              "customer_data", Unknown)]
        ELSE IF r.raised THEN
            IF ~Has(m, "errors") THEN [raised |-> TRUE, msg |-> m]
            ELSE done(Put(AppendError(m, <<"enrichment:", "database-error:",
                                           FaultDetail>>),
                          "customer_data", Unknown))
        ELSE IF r.found THEN done(Put(m, "customer_data", r.value))
        ELSE done(Put(m, "customer_data", Unknown))

\* DatabaseEnricher.enrich, the query going as d says.  Every write to
\* message["errors"] raises KeyError when the key is absent; inside the try
\* block that KeyError reaches the except clause, whose own append raises it
\* again.
enrich(m, d) ==
    LET email == Get(m, "extracted_data", [email |-> None]).email
        r == lookup_customer(email, d)
        done(x) == [raised |-> FALSE,
                    msg |-> Put(x, "processing_stage", "enriched")]
    IN  IF email = None THEN
            IF ~Has(m, "errors") THEN [raised |-> TRUE, msg |-> m]
            ELSE [raised |-> FALSE,
                  msg |-> Put(AppendError(m, <<"enrichment:", "no-email">>),
                              "customer_data", Unknown)]
        ELSE IF r.raised THEN
            IF ~Has(m, "errors") THEN [raised |-> TRUE, msg |-> m]
            ELSE done(Put(AppendError(m, <<"enrichment:", "database-error:",
                                           FaultDetail>>),
                          "customer_data", Unknown))
        ELSE IF r.found THEN done(Put(m, "customer_data", r.value))
        ELSE IF ~Has(m, "errors")
            THEN [raised |-> TRUE, msg |-> Put(m, "customer_data", Unknown)]
        ELSE done(AppendError(Put(m, "customer_data", Unknown),
                              <<"enrichment:", "customer-not-found:", email>>))

\* a variant that drops the extracted data once it has used them
EnricherHandleCleanup(m, d) ==
    LET original_error_count == ErrorCount(m)
        r == enrich(m, d)
        cleaned == Without(r.msg, "extracted_data")
    IN  IF r.raised THEN Raised(r.msg)
        ELSE IF ErrorCount(r.msg) > original_error_count
            THEN Reply(cleaned, "com.learning.message.enrichment-failed")
        ELSE Reply(cleaned, "com.learning.message.enriched")

\* database enricher, handle_event
EnricherHandle(m, d) ==
    LET original_error_count == ErrorCount(m)
        r == enrich(m, d)
        customer_data == Get(r.msg, "customer_data", Unknown)
    IN  IF r.raised THEN Raised(r.msg)
        ELSE IF ErrorCount(r.msg) > original_error_count
            THEN Reply(r.msg, "com.learning.message.enrichment-failed")
        ELSE IF customer_data.is_known_customer
            THEN Reply(r.msg, "com.learning.message.enriched")
        ELSE Reply(r.msg, "com.learning.message.unknown-customer")

----------------------------------------------------------------------------
\* Message router

\* routing_rules[category]['weight']
Weight(category) == 1

\* calculate_route_scores: matches * weight for each category
calculate_route_scores(text) ==
    [c \in Range(Categories) |->
        [score |-> text.matches[c] * Weight(c), matches |-> text.matches[c]]]

\* the loop of determine_route over the categories from the i-th on, with
\* max_score and best_category as they stand
RECURSIVE BestFrom(_, _, _, _)
BestFrom(scores, i, max_score, best_category) ==
    IF i > Len(Categories) THEN <<best_category, max_score>>
    ELSE IF scores[Categories[i]].score > max_score
        THEN BestFrom(scores, i + 1, scores[Categories[i]].score, Categories[i])
        ELSE BestFrom(scores, i + 1, max_score, best_category)

\* a variant that selects the last of the categories that share the maximum
determine_routeLastOfTies(scores) ==
    LET top == CHOOSE v \in {scores[c].score : c \in Range(Categories)} :
                   \A c \in Range(Categories) : scores[c].score <= v
        last == CHOOSE i \in 1..Len(Categories) :
                    /\ scores[Categories[i]].score = top
                    /\ \A j \in 1..Len(Categories) :
                           scores[Categories[j]].score = top => j <= i
    IN  IF top = 0 THEN <<"unknown", 0, <<"No keywords matched">>>>
        ELSE <<Categories[last], top,
               <<"Matched ", ToString(scores[Categories[last]].matches), " keywords">>>>

\* a variant that asks for two matches before it trusts a category
determine_routeCautious(scores) ==
    LET best == BestFrom(scores, 1, 0, "unknown")
    IN  IF best[2] < 2 THEN <<"unknown", 0, <<"No keywords matched">>>>
        ELSE <<best[1], best[2],
               <<"Matched ", ToString(scores[best[1]].matches), " keywords">>>>

\* determine_route: category, confidence, reason
determine_route(scores) ==
    LET best == BestFrom(scores, 1, 0, "unknown")
    IN  IF best[2] = 0 THEN <<"unknown", 0, <<"No keywords matched">>>>
        ELSE <<best[1], best[2],
               <<"Matched ", ToString(scores[best[1]].matches), " keywords">>>>

\* a variant that stores the lower-cased text back into the envelope
routeLowercased(m) ==
    LET content == Get(m, "content", EmptyText)
        scores == calculate_route_scores(content)
        decided == determine_route(scores)
        routing_info == [category |-> decided[1],
                         confidence_score |-> decided[2],
                         reason |-> decided[3],
                         all_scores |-> [c \in Range(Categories) |-> scores[c].score]]
    IN  Put(Put(Put(m, "content", [content EXCEPT !.upper = 0]),
                "routing", routing_info), "processing_stage", "routed")

\* MessageRouter.route
route(m) ==
    LET scores == calculate_route_scores(Get(m, "content", EmptyText))
        decided == determine_route(scores)
        routing_info == [category |-> decided[1],
                         confidence_score |-> decided[2],
                         reason |-> decided[3],
                         all_scores |-> [c \in Range(Categories) |-> scores[c].score]]
    IN  Put(Put(m, "routing", routing_info), "processing_stage", "routed")

\* the event type handle_event derives from the category
RoutedType(category) ==
    IF category = "finance" THEN "com.learning.message.routed.finance"
    ELSE IF category = "support" THEN "com.learning.message.routed.support"
    ELSE IF category = "website" THEN "com.learning.message.routed.website"
    ELSE "com.learning.message.routed.unknown"

\* a variant that gives up on a message that carries errors
RouterHandleErrorAware(m) ==
    LET processed == route(m)
        routing == Get(processed, "routing", [category |-> "unknown"])
    IN  IF ErrorCount(processed) > 0
            THEN Reply(processed, RoutedType("unknown"))
            ELSE Reply(processed, RoutedType(routing.category))

\* message router, handle_event
RouterHandle(m) ==
    LET processed == route(m)
        routing == Get(processed, "routing", [category |-> "unknown"])
    IN  Reply(processed, RoutedType(routing.category))

----------------------------------------------------------------------------
\* The envelopes the stages are handed, and the stage calls

\* event producer, create_cloudevent: the payload (the identifier and the
\* time are fresh values that no stage reads)
create_cloudevent(content) ==
    [message_id |-> "m1", content |-> content, timestamp |-> "t0",
     processing_stage |-> "received",
     metadata |-> [source_ip |-> "demo", user_agent |-> "learning-demo"],
     errors |-> <<>>]

\* The stage endpoints take any JSON object that is posted to them: the
\* payloads the producer creates, and payloads of other senders that lack
\* the errors or the content key.
Envelopes ==
    LET produced == {create_cloudevent(t) : t \in Texts}
        bare == Without(create_cloudevent(PlainText), "content")
    IN  produced \cup {Without(e, "errors") : e \in produced}
                 \cup {bare, Without(bare, "errors")}

StageInit ==
    /\ pool = "producers"
    /\ HubUnused
    /\ ProducerUnused
    /\ env \in Envelopes
    /\ prev = NoEnvelope
    /\ called = NoCall
    /\ outcome = NoCall
    /\ label = NoCall
    /\ db = NoCall
    /\ calls = 0
    /\ monitored = NoCall

\* Event monitor, handle_event: the broker hands it every event of the
\* system, the replies of the stages among them.

\* the words an event type is made of (between its dots and hyphens)
Words(event_type) ==
    LET head == <<"com", "learning", "message">>
        tail ==
            CASE event_type = "com.learning.message.received" -> <<"received">>
              [] event_type = "com.learning.message.validated" -> <<"validated">>
              [] event_type = "com.learning.message.validation-failed"
                    -> <<"validation", "failed">>
              [] event_type = "com.learning.message.extracted" -> <<"extracted">>
              [] event_type = "com.learning.message.extraction-incomplete"
                    -> <<"extraction", "incomplete">>
              [] event_type = "com.learning.message.enriched" -> <<"enriched">>
              [] event_type = "com.learning.message.enrichment-failed"
                    -> <<"enrichment", "failed">>
              [] event_type = "com.learning.message.unknown-customer"
                    -> <<"unknown", "customer">>
              [] event_type = "com.learning.message.routed.finance"
                    -> <<"routed", "finance">>
              [] event_type = "com.learning.message.routed.support"
                    -> <<"routed", "support">>
              [] event_type = "com.learning.message.routed.website"
                    -> <<"routed", "website">>
              [] OTHER -> <<"routed", "unknown">>
    IN  head \o tail

\* word in event_type: none of the words tested is part of a longer word of
\* an event type, or made of parts of two
Mentions(event_type, word) == word \in Range(Words(event_type))

\* the if / elif chain that picks the stage
monitor_stage(event_type) ==
    IF Mentions(event_type, "received") THEN "received"
    ELSE IF Mentions(event_type, "extracted") THEN "extracted"
    ELSE IF Mentions(event_type, "validated")
            \/ Mentions(event_type, "validation") THEN "validated"
    ELSE IF Mentions(event_type, "enriched") THEN "enriched"
    ELSE IF Mentions(event_type, "routed") THEN "routed"
    ELSE IF Mentions(event_type, "failed")
            \/ Mentions(event_type, "error") THEN "failed"
    ELSE "unknown"

\* a stage can be handed the envelope: the one the producer sent, or the one
\* the stage called before replied with
CanCall == env # NoEnvelope /\ outcome # "raised" /\ calls < MaxCalls

\* the handler of stage name ends with r, its customer lookup having gone as
\* d says
Deliver(name, r, d) ==
    /\ env' = r.msg
    /\ prev' = env
    /\ called' = name
    /\ outcome' = IF r.raised THEN "raised" ELSE "replied"
    /\ label' = r.type
    /\ db' = d
    /\ calls' = calls + 1
    /\ monitored' = IF r.raised THEN monitored ELSE monitor_stage(r.type)
    /\ UNCHANGED <<hvars, gvars>>

CallValidator == CanCall /\ Deliver("validator", ValidatorHandle(env), NoCall)

CallExtractor == CanCall /\ Deliver("extractor", ExtractorHandle(env), NoCall)

\* the lookup is reached only with an address to look up
CallEnricher(d) ==
    /\ CanCall
    /\ Deliver("enricher", EnricherHandle(env, d),
               IF Get(env, "extracted_data", [email |-> None]).email = None
                   THEN NoCall ELSE d)

CallRouter == CanCall /\ Deliver("router", RouterHandle(env), NoCall)

StageNext ==
    \/ CallValidator
    \/ CallExtractor
    \/ \E d \in Lookups : CallEnricher(d)
    \/ CallRouter

StageSpec == StageInit /\ [][StageNext]_vars

----------------------------------------------------------------------------
\* What the claims about the stages speak of

\* the last stage call replied with an envelope
Replied == called # NoCall /\ outcome = "replied"

\* the stage name each stage writes into processing_stage
StageName(name) ==
    IF name = "validator" THEN "validated"
    ELSE IF name = "extractor" THEN "extracted"
    ELSE IF name = "enricher" THEN "enriched"
    ELSE "routed"

\* received < validated < extracted < enriched < routed
StageRank(stage) ==
    IF stage = "received" THEN 0
    ELSE IF stage = "validated" THEN 1
    ELSE IF stage = "extracted" THEN 2
    ELSE IF stage = "enriched" THEN 3
    ELSE 4

IsPrefix(a, b) == Len(a) <= Len(b) /\ \A i \in 1..Len(a) : a[i] = b[i]

\* the errors list of an envelope, empty when it has none
Errors(m) == Get(m, "errors", <<>>)
\* the entries the last call appended
NewErrors == SubSeq(Errors(env), Len(Errors(prev)) + 1, Len(Errors(env)))

\* C12: after any call of a stage, on every path that returns an envelope,
\* the envelope's processing_stage is that stage's own name.
C12_StageNameAfterCall ==
    Replied => env["processing_stage"] = StageName(called)

\* C13: a stage call never leaves processing_stage lower (in the order
\* received < validated < extracted < enriched < routed) than it found it,
\* whatever stages the envelope has passed before.
C13_StageNeverRegresses ==
    Replied =>
        StageRank(env["processing_stage"]) >= StageRank(prev["processing_stage"])

\* C14: across every stage call (stage body and handler) the errors list
\* only grows at its end: the list before the call is a prefix of the list
\* after it.
C14_ErrorsAppendOnly ==
    Replied => IsPrefix(Errors(prev), Errors(env))
\* a call has appended to a list that already had an entry
C14_Witness ==
    Replied /\ Len(Errors(prev)) > 0 /\ Len(Errors(env)) > Len(Errors(prev))

\* the label a stage replies with when it has recorded a failure, and when
\* it has not
FailedLabel(name) ==
    IF name = "validator" THEN "com.learning.message.validation-failed"
    ELSE IF name = "extractor" THEN "com.learning.message.extraction-incomplete"
    ELSE "com.learning.message.enrichment-failed"
SuccessLabel(name) ==
    IF name = "validator" THEN "com.learning.message.validated"
    ELSE IF name = "extractor" THEN "com.learning.message.extracted"
    ELSE "com.learning.message.enriched"

\* C15: Validator, Extractor and Enricher reply with the failed label of the
\* stage exactly when the errors list is longer after the call than before
\* it, and with the success label otherwise.
C15_LabelByErrorDelta ==
    Replied /\ called \in {"validator", "extractor", "enricher"} =>
        label = IF Len(Errors(env)) > Len(Errors(prev))
                    THEN FailedLabel(called) ELSE SuccessLabel(called)
\* the Validator has let a message without issues pass, its errors list as
\* long as before
C15_Witness ==
    /\ Replied /\ called = "validator"
    /\ Len(Errors(env)) = Len(Errors(prev))
    /\ label = "com.learning.message.validated"

\* C16: the Router's label is decided by routing.category alone (finance,
\* support, website: the label of that category; anything else: unknown),
\* whatever the errors list holds, and the Router appends nothing to errors.
C16_RouterLabelByCategory ==
    Replied /\ called = "router" =>
        /\ label =
            CASE env["routing"].category = "finance"
                    -> "com.learning.message.routed.finance"
              [] env["routing"].category = "support"
                    -> "com.learning.message.routed.support"
              [] env["routing"].category = "website"
                    -> "com.learning.message.routed.website"
              [] OTHER -> "com.learning.message.routed.unknown"
        /\ Has(env, "errors") = Has(prev, "errors")
        /\ Errors(env) = Errors(prev)
\* the Router has classified a message that carries an error
C16_Witness ==
    /\ Replied /\ called = "router"
    /\ Len(Errors(prev)) > 0
    /\ env["routing"].category = "support"

\* the namespace each stage is to prefix its errors entries with
Namespace(name) ==
    IF name = "validator" THEN "validation:"
    ELSE IF name = "extractor" THEN "extraction:"
    ELSE "enrichment:"

\* C17: every entry a stage appends to errors starts with the stage's own
\* namespace prefix (validation:, extraction:, enrichment:).
C17_ErrorsCarryStagePrefix ==
    Replied =>
        \A i \in 1..Len(NewErrors) : NewErrors[i][1] = Namespace(called)

\* the labels a stage can reply with
Labels(name) ==
    IF name = "router"
        THEN {RoutedType(c) : c \in Range(Categories) \cup {"unknown"}}
        ELSE {FailedLabel(name), SuccessLabel(name)}

\* C18: a stage handed an envelope that carries an errors list replies with
\* one envelope and one label of its own, whatever the outcome (spam, no
\* e-mail address, customer not found, no keyword matched): it never raises
\* and never drops the message.
C18_EveryOutcomeReplies ==
    called # NoCall /\ Has(prev, "errors") =>
        /\ outcome = "replied"
        /\ label \in Labels(called)
        /\ env # NoEnvelope
\* the Extractor has found no address in a message that carries errors
C18_Witness ==
    /\ Replied /\ called = "extractor" /\ Has(prev, "errors")
    /\ env["extracted_data"].email = None

\* the customer_data flag of the envelope
IsKnown(m) == Get(m, "customer_data", Unknown).is_known_customer

\* the entry the Enricher appends to m when the lookup finds no customer
NoMatchEntry(m) ==
    LET after == Errors(enrich(m, "missing").msg) IN after[Len(after)]

\* C19: when the customer lookup faults, the Enricher (handed an envelope
\* that carries an errors list) still replies: with exactly one new errors
\* entry, which holds the detail of the fault and differs from the entry of
\* a customer that was not found, with is_known_customer false and with the
\* enrichment-failed label.
C19_FaultIsRecorded ==
    called = "enricher" /\ db = "fault" /\ Has(prev, "errors") =>
        /\ outcome = "replied"
        /\ Len(NewErrors) = 1
        /\ NewErrors[1][1] = "enrichment:"
        /\ FaultDetail \in Range(NewErrors[1])
        /\ NewErrors[1] # NoMatchEntry(prev)
        /\ IsKnown(env) = FALSE
        /\ label = "com.learning.message.enrichment-failed"
\* a lookup has faulted
C19_Witness ==
    Replied /\ called = "enricher" /\ db = "fault" /\ Has(prev, "errors")

\* the four outcomes of an Enricher call, told from what it left behind
TookNoEmail ==
    NewErrors = <<<<"enrichment:", "no-email">>>> /\ ~IsKnown(env)
TookNoMatch ==
    /\ Len(NewErrors) = 1 /\ Len(NewErrors[1]) = 3
    /\ NewErrors[1][2] = "customer-not-found:" /\ ~IsKnown(env)
TookFault ==
    /\ Len(NewErrors) = 1 /\ Len(NewErrors[1]) = 3
    /\ NewErrors[1][2] = "database-error:" /\ ~IsKnown(env)
TookSuccess == NewErrors = <<>> /\ IsKnown(env)

\* C20: an Enricher call (on an envelope that carries an errors list) takes
\* exactly one of four outcomes: no e-mail address, no matching customer, a
\* lookup fault, each appending exactly one errors entry and setting
\* is_known_customer false, or success, appending nothing and setting it
\* true.
C20_OneOfFourOutcomes ==
    called = "enricher" /\ Has(prev, "errors") =>
        /\ outcome = "replied"
        /\ TookNoEmail <=> db = NoCall
        /\ TookNoMatch <=> db = "missing"
        /\ TookFault <=> db = "fault"
        /\ TookSuccess <=> db = "found"
        /\ Cardinality({o \in {"no-email", "missing", "fault", "found"} :
                \/ o = "no-email" /\ TookNoEmail
                \/ o = "missing" /\ TookNoMatch
                \/ o = "fault" /\ TookFault
                \/ o = "found" /\ TookSuccess}) = 1
\* the Enricher has found the customer
C20_Witness ==
    /\ Replied /\ called = "enricher" /\ db = "found" /\ Has(prev, "errors")
    /\ TookSuccess

\* the result field each stage owns
ResultField(name) ==
    IF name = "validator" THEN "validation"
    ELSE IF name = "extractor" THEN "extracted_data"
    ELSE IF name = "enricher" THEN "customer_data"
    ELSE "routing"

\* the text of the envelope the last call received
PrevText == Get(prev, "content", EmptyText)

\* C21: whenever a stage call appends to errors, the envelope it returns
\* carries the stage's result field with the partial result of that call:
\* the validation verdict with its issues, the extracted data with a null
\* address, the customer data of an unknown customer.
C21_FailureKeepsResult ==
    Replied /\ Len(NewErrors) > 0 =>
        /\ Has(env, ResultField(called))
        /\ called = "validator" =>
            /\ env["validation"].is_valid = FALSE
            /\ env["validation"].issues_found # <<>>
            /\ env["validation"].issues_found = IssuesFound(PrevText)
        /\ called = "extractor" =>
            /\ env["extracted_data"].email = None
            /\ env["extracted_data"].content_length = PrevText.len
        /\ called = "enricher" => env["customer_data"] = Unknown
\* the Enricher has recorded a customer it did not find
C21_Witness ==
    Replied /\ called = "enricher" /\ db = "missing" /\ Len(NewErrors) = 1

\* C22: the Extractor (handed an envelope that carries an errors list)
\* replies with the label extracted exactly when extracted_data.email is not
\* null; with a null address it appends exactly one errors entry, about the
\* missing address, and replies extraction-incomplete; processing_stage is
\* extracted either way.
C22_ExtractorLabelByEmail ==
    called = "extractor" /\ Has(prev, "errors") =>
        /\ outcome = "replied"
        /\ env["processing_stage"] = "extracted"
        /\ label = "com.learning.message.extracted"
            <=> env["extracted_data"].email # None
        /\ env["extracted_data"].email # None => NewErrors = <<>>
        /\ env["extracted_data"].email = None =>
            /\ NewErrors = <<<<"No email address found">>>>
            /\ label = "com.learning.message.extraction-incomplete"
\* the Extractor has found no address in a message the Validator passed on
C22_Witness ==
    /\ Replied /\ called = "extractor"
    /\ prev["processing_stage"] = "validated"
    /\ label = "com.learning.message.extraction-incomplete"

\* C23: after any Validator call validation.checks_performed is 6, and
\* validation.is_valid is true exactly when validation.issues_found is
\* empty, that is when none of the six checks found anything.
C23_SixChecksAndVerdict ==
    Replied /\ called = "validator" =>
        /\ env["validation"].checks_performed = 6
        /\ env["validation"].is_valid
            <=> env["validation"].issues_found = <<>>
        /\ env["validation"].is_valid
            <=> \A i \in 1..Len(AllChecks(PrevText)) : ~AllChecks(PrevText)[i].found
\* the Validator has rejected a message that has one issue only
C23_Witness ==
    /\ Replied /\ called = "validator"
    /\ ~env["validation"].is_valid
    /\ Len(env["validation"].issues_found) = 1

\* the place of an issue in the order of the checks, told from its text
IssueRank(issue) ==
    IF issue[1] = "Spam keywords: " THEN 1
    ELSE IF issue[1] = "Profanity: " THEN 2
    ELSE IF issue[1] \in {"Message too short (minimum 10 characters)",
                          "Message too long (maximum 10,000 characters)"} THEN 3
    ELSE IF issue[1] = "Excessive capitalization detected (>50%)" THEN 4
    ELSE IF issue[1] = "Too many URLs detected (" THEN 5
    ELSE IF issue[1] = "Excessive character repetition detected" THEN 6
    ELSE 0

\* C24: the Validator reports every check that found something, not only
\* the first: the entries it appends to errors are its recorded issues, one
\* entry per issue, in the order spam, profanity, length, capitalization,
\* URL count, repetition.
C24_EveryIssueReported ==
    Replied /\ called = "validator" /\ Has(prev, "errors") =>
        LET issues == env["validation"].issues_found
            hits == {i \in 1..Len(AllChecks(PrevText)) : AllChecks(PrevText)[i].found}
        IN  /\ Len(NewErrors) = Len(issues)
            /\ Len(NewErrors) = Cardinality(hits)
            /\ \A i \in 1..Len(NewErrors) :
                /\ NewErrors[i] = <<"validation:">> \o issues[i]
                /\ IssueRank(issues[i]) \in hits
            /\ \A i, j \in 1..Len(issues) :
                i < j => IssueRank(issues[i]) < IssueRank(issues[j])
\* a message has failed all six checks at once
C24_Witness ==
    Replied /\ called = "validator" /\ Len(NewErrors) = 6

\* the largest value of all_scores
MaxScore(all_scores) ==
    CHOOSE v \in {all_scores[c] : c \in DOMAIN all_scores} :
        \A c \in DOMAIN all_scores : all_scores[c] <= v
\* the first category, in the order finance, support, website, whose score
\* is the largest
FirstWithMax(all_scores) ==
    Categories[CHOOSE i \in 1..Len(Categories) :
        /\ all_scores[Categories[i]] = MaxScore(all_scores)
        /\ \A j \in 1..(i - 1) :
               all_scores[Categories[j]] # MaxScore(all_scores)]

\* C25 as stated: the Router selects the category with the highest score,
\* the first of finance, support, website among those that share the
\* maximum, and confidence_score is the maximum of all_scores.
C25_SelectsFirstWithMax ==
    Replied /\ called = "router" =>
        /\ env["routing"].confidence_score = MaxScore(env["routing"].all_scores)
        /\ env["routing"].category = FirstWithMax(env["routing"].all_scores)

\* C25, amended: the same whenever the maximum of all_scores is above 0
\* (with every score at 0 the categories share the maximum and the result is
\* unknown, not finance); confidence_score is the maximum in every case.
C25_SelectsFirstWithPositiveMax ==
    Replied /\ called = "router" =>
        /\ env["routing"].confidence_score = MaxScore(env["routing"].all_scores)
        /\ env["routing"].all_scores =
               [c \in Range(Categories) |-> PrevText.matches[c] * Weight(c)]
        /\ MaxScore(env["routing"].all_scores) > 0 =>
               env["routing"].category = FirstWithMax(env["routing"].all_scores)
\* two categories have shared a positive maximum and the first declared of
\* them was selected
C25_Witness ==
    /\ Replied /\ called = "router"
    /\ env["routing"].all_scores["support"] = env["routing"].all_scores["website"]
    /\ env["routing"].all_scores["support"] > env["routing"].all_scores["finance"]
    /\ env["routing"].category = "support"

\* C26: the Router's result is unknown with confidence_score 0 exactly when
\* no category scores above 0; when some category does, the category is one
\* of finance, support, website and confidence_score is positive.
C26_UnknownIffNoScore ==
    Replied /\ called = "router" =>
        LET r == env["routing"]
            some == \E c \in Range(Categories) : r.all_scores[c] > 0
        IN  /\ (r.category = "unknown" /\ r.confidence_score = 0) <=> ~some
            /\ some => r.category \in Range(Categories) /\ r.confidence_score > 0
            /\ some <=> \E c \in Range(Categories) : PrevText.matches[c] > 0
\* a message that went through the Enricher matched no routing keyword
C26_Witness ==
    /\ Replied /\ called = "router"
    /\ prev["processing_stage"] = "enriched"
    /\ env["routing"].category = "unknown"

\* C27: no stage call changes message_id, content or timestamp (or adds or
\* removes one of them), so after any sequence of calls they are as the
\* producer assigned them.
C27_IdentityFieldsKept ==
    Replied =>
        \A k \in {"message_id", "content", "timestamp"} :
            /\ Has(env, k) = Has(prev, k)
            /\ Has(prev, k) => env[k] = prev[k]
\* the envelope has been through validation, extraction and routing
C27_Witness ==
    /\ Replied /\ called = "router"
    /\ Has(env, "validation") /\ Has(env, "extracted_data")
    /\ env["message_id"] = "m1" /\ env["timestamp"] = "t0"
    /\ Has(env, "content")

ResultFields == {"validation", "extracted_data", "customer_data", "routing"}

\* C28: each stage writes its own result field only and leaves the other
\* three as they were.
C28_OnlyOwnResultField ==
    Replied =>
        /\ Has(env, ResultField(called))
        /\ \A f \in ResultFields \ {ResultField(called)} :
            /\ Has(env, f) = Has(prev, f)
            /\ Has(prev, f) => env[f] = prev[f]
\* the Enricher has been handed an envelope that carries the results of the
\* Validator and the Extractor
C28_Witness ==
    /\ Replied /\ called = "enricher"
    /\ Has(prev, "validation") /\ Has(prev, "extracted_data")
    /\ Has(env, "customer_data")

\* the handler of a stage
Handle(name, m, d) ==
    IF name = "validator" THEN ValidatorHandle(m)
    ELSE IF name = "extractor" THEN ExtractorHandle(m)
    ELSE IF name = "enricher" THEN EnricherHandle(m, d)
    ELSE RouterHandle(m)
\* the stage called last is run again on the envelope it replied with, its
\* lookup going as before
Again == Handle(called, env, IF db = NoCall THEN "found" ELSE db)

\* C29: running a stage a second time on the envelope it has just returned
\* gives the same value of the stage's result field as the first run (for
\* the Enricher: with the lookup going the same way).  Seen both ways: from
\* a reply, by running the stage once more, and at a reply of a stage that
\* has run on this envelope before.
C29_SecondRunSameResult ==
    Replied =>
        /\ ~Again.raised =>
               Again.msg[ResultField(called)] = env[ResultField(called)]
        /\ (/\ called \in {"validator", "extractor", "router"}
            /\ Has(prev, ResultField(called)))
               => env[ResultField(called)] = prev[ResultField(called)]
        /\ (/\ called = "enricher"
            /\ prev["processing_stage"] = "enriched"
            /\ IsKnown(prev) = (db = "found"))
               => env["customer_data"] = prev["customer_data"]
\* the Validator has rejected, for the second time in a row, a message with
\* issues
C29_Witness ==
    /\ Replied /\ called = "validator"
    /\ prev["processing_stage"] = "validated"
    /\ Has(prev, "validation")
    /\ ~env["validation"].is_valid

----------------------------------------------------------------------------
\* the generator of s is past its registration and has not ended
Consuming(s) == spc[s] \in {"live", "yield"}

\* C30: a subscriber that keeps consuming is yielded the items put into its
\* mailbox in the order they were put there (what has reached it through
\* the mailbox only ever grows at its end, and what it has been yielded is
\* the front of that), and every item put into its mailbox is eventually
\* yielded to it unless its client goes away, when the subscriber's thread
\* is scheduled fairly.
C30_YieldedInEnqueueOrder ==
    /\ [][\A s \in Subs :
            (Consuming(s) /\ (spc'[s] \in {"live", "yield"})) =>
                /\ IsPrefix(Received(s), Received(s)')
                /\ IsPrefix(LivePart(s), LivePart(s)')
                /\ IsPrefix(LivePart(s)', Received(s))]_vars
    /\ \A s \in Subs : \A k \in 1..MaxPub :
            (Consuming(s) /\ k \in Range(mbox[s]))
                ~> (k \in Range(LivePart(s)) \/ ~connected[s])
\* a subscriber that is still registered and connected has been yielded two
\* items from its mailbox while a third waits there
C30_Witness ==
    \E s \in Subs :
        /\ Registered(s) /\ connected[s] /\ Consuming(s)
        /\ Len(LivePart(s)) >= 2
        /\ mbox[s] # <<>>

\* the item at position i of a sequence occurs again further on
Repeats(q) == \E i, j \in 1..Len(q) : i < j /\ q[i] = q[j]

\* C31: one publish reaches every registered subscriber once: a walk never
\* visits a mailbox twice (nor skips or removes one that is not full), so no
\* subscriber finds the same item twice among what came through its mailbox.
C31_WalkVisitsEachOnce == \A s \in Subs : ~Repeats(Received(s))

----------------------------------------------------------------------------
\* Envelopes that lack a field

\* the stages that read the content
ContentReaders == {"validator", "extractor", "router"}

\* C32: a stage handed an envelope with no content field takes the content
\* for the empty string and replies: the envelope it returns carries the
\* stage's result field, computed from the empty string, and the reply has
\* one of the stage's labels.
C32_AbsentContentIsEmpty ==
    called \in ContentReaders /\ ~Has(prev, "content") =>
        /\ outcome = "replied"
        /\ label \in Labels(called)
        /\ Has(env, ResultField(called))
        /\ called = "validator" =>
                env["validation"].issues_found = IssuesFound(EmptyText)
        /\ called = "extractor" => env["extracted_data"].email = None
        /\ called = "router" => env["routing"].category = "unknown"

\* the address the Extractor stored in an envelope, None when it stored none
StoredEmail(m) == Get(m, "extracted_data", [email |-> None]).email

\* the last call had a failure to record: invalid content, no address
\* found, no address to look up, customer not found
HadFailure ==
    \/ called = "validator" /\ IssuesFound(PrevText) # <<>>
    \/ called = "extractor" /\ PrevText.email = None
    \/ called = "enricher" /\ StoredEmail(prev) = None
    \/ called = "enricher" /\ StoredEmail(prev) # None /\ db = "missing"

\* C33: a stage handed an envelope with no errors field counts the original
\* errors as 0 and, when it has a failure to record, replies with an
\* envelope that carries the new errors entry and with its failed or
\* incomplete label.
C33_AbsentErrorsCountAsNone ==
    called # NoCall /\ ~Has(prev, "errors") /\ HadFailure =>
        /\ outcome = "replied"
        /\ Len(Errors(env)) >= 1
        /\ label = FailedLabel(called)

----------------------------------------------------------------------------
\* The labels of the Enricher

\* C34: the Enricher never replies with the unknown-customer label: whenever
\* it leaves customer_data.is_known_customer false it has appended an
\* errors entry, so the count test picks enrichment-failed first; its label
\* is always enriched or enrichment-failed.
C34_NeverUnknownCustomer ==
    Replied /\ called = "enricher" =>
        /\ label \in {"com.learning.message.enriched",
                      "com.learning.message.enrichment-failed"}
        /\ ~IsKnown(env) =>
            /\ Len(NewErrors) >= 1
            /\ label = "com.learning.message.enrichment-failed"
\* the Enricher has replied about a customer the table does not hold
C34_Witness ==
    /\ Replied /\ called = "enricher" /\ db = "missing"
    /\ ~IsKnown(env)
    /\ label = "com.learning.message.enrichment-failed"

----------------------------------------------------------------------------
\* The capitalization check

CapsIssue == <<"Excessive capitalization detected (>50%)">>

\* the Validator has flagged the content it was handed for capitalization
CapsFlagged ==
    /\ CapsIssue \in Range(env["validation"].issues_found)
    /\ ~env["validation"].is_valid

\* C35: the Validator flags excessive capitalization exactly when the
\* content is longer than 20 characters and more than half of its
\* characters are uppercase letters: a content of 20 characters or fewer is
\* never flagged, and a ratio of exactly one half is not flagged.
C35_CapsOverHalfOfLongContent ==
    called = "validator" =>
        /\ CapsFlagged <=> (PrevText.len > 20 /\ 2 * PrevText.upper > PrevText.len)
        /\ PrevText.len <= 20 => ~CapsFlagged
        /\ 2 * PrevText.upper = PrevText.len => ~CapsFlagged
\* the Validator has flagged a content of 21 characters, 11 of them capitals
C35_Witness ==
    /\ Replied /\ called = "validator"
    /\ PrevText.len = 21 /\ PrevText.upper = 11
    /\ CapsFlagged

----------------------------------------------------------------------------
\* Event producer (the ingestion boundary)

\* number of requests explored
MaxRequests == 2

\* str(uuid.uuid4()): some fresh identifier
EventIds == {"u1", "u2"}

\* The JSON values a request can carry as its content: null, a number, a
\* list, and strings, told by their length and by how many of their
\* characters are not whitespace ("", "   ", " hi  " and a sentence).
JsonNull == [kind |-> "null"]
JsonStrings ==
    { [kind |-> "string", len |-> n[1], solid |-> n[2]] :
        n \in {<<0, 0>>, <<3, 0>>, <<5, 2>>, <<30, 25>>} }
ContentValues ==
    {JsonNull, [kind |-> "number"], [kind |-> "array", items |-> <<>>]}
        \cup JsonStrings

\* The bodies of the requests: text that is not JSON, null, objects with and
\* without a content key, and lists (one of them holding the string
\* "content").
Bodies ==
    {[kind |-> "malformed"], JsonNull}
        \cup { [kind |-> "object", fields |-> f] :
                f \in {NoEnvelope, [k \in {"text"} |-> JsonNull]} }
        \cup { [kind |-> "object", fields |-> Put(f, "content", v)] :
                f \in {NoEnvelope, [k \in {"text"} |-> JsonNull]},
                v \in ContentValues }
        \cup { [kind |-> "array", items |-> q] :
                q \in {<<>>, <<"text">>, <<"content">>} }

\* a request: whether its Content-Type says JSON, and its body
Requests == { [is_json |-> j, body |-> b] : j \in BOOLEAN, b \in Bodies }

\* what requests.post and raise_for_status make of the broker: a 2xx answer,
\* a 4xx or 5xx answer (HTTPError), no connection (ConnectionError), no
\* answer within 5 seconds (Timeout)
SinkAnswers == {"accepted", "error_status", "unreachable", "timeout"}

\* not data
Falsy(data) ==
    \/ data.kind = "null"
    \/ data.kind = "object" /\ DOMAIN data.fields = {}
    \/ data.kind = "array" /\ data.items = <<>>

\* "content" in data: a key of an object, an element of a list
Contains(data, name) ==
    \/ data.kind = "object" /\ name \in DOMAIN data.fields
    \/ data.kind = "array" /\ name \in Range(data.items)

\* not content.strip()
Blank(content) == content.solid = 0

\* create_cloudevent with event_id for the identifier drawn: the headers and
\* the payload
CloudEvent(content, event_id) ==
    [headers |-> ("Ce-Specversion" :> "1.0")
                    @@ ("Ce-Type" :> "com.learning.message.received")
                    @@ ("Ce-Source" :> "/services/event-producer")
                    @@ ("Ce-Id" :> event_id)
                    @@ ("Ce-Subject" :> event_id)
                    @@ ("Content-Type" :> "application/json"),
     payload |-> [create_cloudevent(content) EXCEPT !.message_id = event_id]]

\* the answer of the handler: its status, the events it posted to the
\* broker and how the post went
Answer(code) == [status |-> code, posts |-> <<>>, sink |-> NoCall]

\* a variant that takes any string for content, blank or not
produce_eventAnyString(req, event_id, answer) ==
    IF ~req.is_json THEN Answer(415)
    ELSE IF req.body.kind = "malformed" THEN Answer(400)
    ELSE IF Falsy(req.body) \/ ~Contains(req.body, "content") THEN Answer(400)
    ELSE IF req.body.kind # "object" THEN Answer(500)
    ELSE LET content == req.body.fields["content"]
         IN  IF content.kind # "string" THEN Answer(400)
             ELSE [status |-> IF answer = "accepted" THEN 202 ELSE 503,
                   posts |-> <<CloudEvent(content, event_id)>>,
                   sink |-> answer]

\* produce_event.  A body that is not JSON makes get_json raise BadRequest
\* (400); a list that holds "content" passes the membership test and then
\* has no get method (AttributeError, answered with 500).
produce_event(req, event_id, answer) ==
    IF ~req.is_json THEN Answer(415)
    ELSE IF req.body.kind = "malformed" THEN Answer(400)
    ELSE IF Falsy(req.body) \/ ~Contains(req.body, "content") THEN Answer(400)
    ELSE IF req.body.kind # "object" THEN Answer(500)
    ELSE LET content == req.body.fields["content"]
         IN  IF content.kind # "string" \/ Blank(content) THEN Answer(400)
             ELSE [status |-> IF answer = "accepted" THEN 202 ELSE 503,
                   posts |-> <<CloudEvent(content, event_id)>>,
                   sink |-> answer]

ProducerInit ==
    /\ pool = "producers"
    /\ HubUnused
    /\ StageUnused
    /\ ProducerUnused

\* one request handled from its arrival to its answer
ProduceEvent(req, event_id, answer) ==
    /\ served < MaxRequests
    /\ LET r == produce_event(req, event_id, answer)
       IN  /\ request' = req
           /\ status' = r.status
           /\ sink' = r.sink
           /\ posted' = posted \o r.posts
    /\ served' = served + 1
    /\ UNCHANGED <<hvars, evars>>

ProducerNext ==
    \E req \in Requests, event_id \in EventIds, answer \in SinkAnswers :
        ProduceEvent(req, event_id, answer)

ProducerSpec == ProducerInit /\ [][ProducerNext]_vars

\* a JSON request whose content is a string that is not blank
WellFormed(req) ==
    /\ req.is_json
    /\ req.body.kind = "object"
    /\ "content" \in DOMAIN req.body.fields
    /\ req.body.fields["content"].kind = "string"
    /\ req.body.fields["content"].solid > 0

\* C36: the ingestion boundary posts an envelope to the broker only for a
\* JSON request whose content is a string that is not blank, and for each
\* of those; every envelope it posts has processing_stage received, an empty
\* errors list and the event id for its message_id; any other request is
\* answered with an error status and nothing is posted for it; a post the
\* broker does not accept is answered with 503, and 202 is answered only
\* for a post the broker accepted.
C36_OnlyWellFormedPublished ==
    /\ [](\A i \in 1..Len(posted) :
            /\ posted[i].payload.processing_stage = "received"
            /\ posted[i].payload.errors = <<>>
            /\ posted[i].payload.message_id = posted[i].headers["Ce-Id"])
    /\ [](served > 0 =>
            /\ ~WellFormed(request) => status \in {400, 415, 500} /\ sink = NoCall
            /\ WellFormed(request) => sink # NoCall
            /\ sink \in SinkAnswers \ {"accepted"} => status = 503
            /\ status = 202 <=> sink = "accepted")
    /\ [][/\ ~WellFormed(request') => posted' = posted
          /\ WellFormed(request') =>
                /\ Len(posted') = Len(posted) + 1
                /\ IsPrefix(posted, posted')
                /\ posted'[Len(posted')].payload.content
                        = request'.body.fields["content"]]_vars
\* one request has been turned away and the next one published
C36_Witness ==
    /\ served = 2 /\ Len(posted) = 1
    /\ WellFormed(request)
    /\ status = 202

----------------------------------------------------------------------------
\* The stage the event monitor shows

\* the rules in their fixed order: the words looked for, the stage shown
StageRules ==
    << [words |-> {"received"}, stage |-> "received"],
       [words |-> {"extracted"}, stage |-> "extracted"],
       [words |-> {"validated", "validation"}, stage |-> "validated"],
       [words |-> {"enriched"}, stage |-> "enriched"],
       [words |-> {"routed"}, stage |-> "routed"],
       [words |-> {"failed", "error"}, stage |-> "failed"] >>

\* the stage of the first rule that matches, unknown when none does
FirstMatch(event_type) ==
    LET hits == {i \in 1..Len(StageRules) :
                    \E w \in StageRules[i].words : Mentions(event_type, w)}
    IN  IF hits = {} THEN "unknown"
        ELSE StageRules[CHOOSE i \in hits : \A j \in hits : i <= j].stage

FailureLabels ==
    {"com.learning.message.validation-failed",
     "com.learning.message.extraction-incomplete",
     "com.learning.message.enrichment-failed"}

\* C37: the event monitor shows for each event the stage of the first rule
\* that matches its type, in the order received, extracted,
\* validated/validation, enriched, routed, failed/error, else unknown; and
\* every event whose type is a failure label of the pipeline
\* (validation-failed, extraction-incomplete, enrichment-failed) is shown
\* as failed.
C37_FailureLabelsShownFailed ==
    Replied =>
        /\ monitored = FirstMatch(label)
        /\ label \in FailureLabels => monitored = "failed"

====
